---- MODULE Spec2Model ----
(***************************************************************************)
(* Model of styxdefs-js: the DryRunner backend (src/src/dryRunner.ts), the *)
(* process-wide default-runner slot (src/unnamed/part_000, the global      *)
(* state module) and StyxRuntimeError (src/unnamed/part_001, the types     *)
(* module).                                                                *)
(*                                                                         *)
(* Objects live in a heap indexed by reference (a positive integer); the   *)
(* null reference is 0.  An optional value is None (the empty sequence)    *)
(* or Some(v) (a one-element sequence).  A JavaScript string whose         *)
(* characters matter is a sequence of one-character strings.               *)
(***************************************************************************)
EXTENDS Integers, Sequences, FiniteSets

VARIABLES
    STYX_GLOBAL_RUNNER, \* the module-level slot: a reference, or NullRef
    heap,               \* DryRunner objects: reference -> fields
    started,            \* what each startExecution call so far was given and returned
    calls,              \* invocations of the stdout/stderr callbacks handed to run
    arrays,             \* string[] objects of the caller: reference -> contents
    err,                \* the StyxRuntimeError constructed last, or None
    op                  \* the call made last: name, receiver, arguments, result

vars == <<STYX_GLOBAL_RUNNER, heap, started, calls, arrays, err, op>>

-----------------------------------------------------------------------------
(* Bounds of the exploration. *)

\* DryRunner objects the caller constructs itself (the lazy default is extra).
MaxRunners == 2

\* startExecution calls in one behaviour.
MaxStarts == 2

\* Elements of a command-argument array.
MaxArgs == 3

-----------------------------------------------------------------------------
(* Values. *)

NullRef == 0

None == <<>>

Some(v) == <<v>>

\* The reference a `new` expression yields: one not in use.
FreshRef(h) == Cardinality(DOMAIN h) + 1

\* The heap after `new`: the object sits at the fresh reference.
Alloc(h, obj) ==
    [r \in DOMAIN h \cup {FreshRef(h)} |-> IF r \in DOMAIN h THEN h[r] ELSE obj]

\* Static tool metadata records (interface Metadata).
Metadata ==
    { [id |-> "a1b2", name |-> "bet", package |-> "fsl"],
      [id |-> "c3d4", name |-> "mriqc", package |-> "bids"] }

\* Parameter objects of the caller, told apart by identity.
ParamObjects == {"paramsA", "paramsB"}

\* Paths handed to inputFile / outputFile.
Paths == {"/data/sub-01/T1w.nii", "out dir/mask.nii"}

\* Argument vectors handed to run.
CargsValues == { <<"bet">>, <<"bet", "in.nii", "out dir/mask.nii">> }

-----------------------------------------------------------------------------
(* DryRunner (src/src/dryRunner.ts). *)

\* constructor(): the three fields start null.
DryRunnerNew ==
    [lastCargs |-> None, lastMetadata |-> None, lastParams |-> None]

\* String.prototype.toString of a string primitive: the string itself.
ToString(s) == s

\* startExecution were it to hand out one shared Execution, the first runner
\* made, instead of the runner called.
startExecutionShared(h, this, metadata) ==
    [heap |-> [h EXCEPT ![this].lastMetadata = Some(metadata)],
     ret  |-> FreshRef(<<>>)]

\* startExecution(metadata): this.lastMetadata = metadata; return this.
startExecution(h, this, metadata) ==
    [heap |-> [h EXCEPT ![this].lastMetadata = Some(metadata)],
     ret  |-> this]

\* inputFile were it to honour resolveParent by answering with a directory.
inputFileParent(h, this, hostFile, resolveParent, mutable) ==
    [heap |-> h,
     ret  |-> IF resolveParent THEN "/data/sub-01" ELSE ToString(hostFile)]

\* inputFile(hostFile, resolveParent, mutable): return hostFile.toString().
inputFile(h, this, hostFile, resolveParent, mutable) ==
    [heap |-> h, ret |-> ToString(hostFile)]

\* outputFile(localFile, optional): return localFile.
outputFile(h, this, localFile, optional) ==
    [heap |-> h, ret |-> localFile]

\* params were lastParams one field shared by all runners (a static field).
paramsShared(h, this, p) ==
    [heap |-> [r \in DOMAIN h |-> [h[r] EXCEPT !.lastParams = Some(p)]],
     ret  |-> p]

\* params were it to keep the first parameters it saw and, with them, forget
\* the argument vector.
paramsOnce(h, this, p) ==
    [heap |-> IF h[this].lastParams = None
              THEN [h EXCEPT ![this].lastParams = Some(p)]
              ELSE [h EXCEPT ![this].lastCargs = None],
     ret  |-> p]

\* params(params): this.lastParams = params; return params.
params(h, this, p) ==
    [heap |-> [h EXCEPT ![this].lastParams = Some(p)],
     ret  |-> p]

\* run were it to announce the command on the stdout handler when one is
\* supplied.
runAnnouncing(h, this, cargs, handleStdout, handleStderr) ==
    [heap    |-> [h EXCEPT ![this].lastCargs = Some(cargs)],
     invoked |-> IF handleStdout THEN <<"stdout">> ELSE <<>>,
     ret     |-> "void"]

\* run(cargs, _handleStdout, _handleStderr): this.lastCargs = cargs.
\* Neither handler is used in the body; nothing is thrown; the result is void.
run(h, this, cargs, handleStdout, handleStderr) ==
    [heap    |-> [h EXCEPT ![this].lastCargs = Some(cargs)],
     invoked |-> <<>>,
     ret     |-> "void"]

-----------------------------------------------------------------------------
(* The default-runner slot (src/unnamed/part_000). *)

\* getGlobalRunner were the null test missing: a new DryRunner every call.
getGlobalRunnerAlwaysNew(slot, h) ==
    [slot |-> FreshRef(h), heap |-> Alloc(h, DryRunnerNew), ret |-> FreshRef(h)]

\* getGlobalRunner(): fill the slot with a new DryRunner when it is null,
\* then return the slot.
getGlobalRunner(slot, h) ==
    LET slot1 == IF slot = NullRef THEN FreshRef(h) ELSE slot
        heap1 == IF slot = NullRef THEN Alloc(h, DryRunnerNew) ELSE h
    IN  [slot |-> slot1, heap |-> heap1, ret |-> slot1]

\* setGlobalRunner were it to fill an unset slot only (first write wins).
setGlobalRunnerIfUnset(slot, h, runner) ==
    [slot |-> IF slot = NullRef THEN runner ELSE slot, heap |-> h]

\* setGlobalRunner were it to clear the runner it replaces.
setGlobalRunnerClearing(slot, h, runner) ==
    [slot |-> runner,
     heap |-> IF slot # NullRef /\ slot # runner
              THEN [h EXCEPT ![slot] = DryRunnerNew]
              ELSE h]

\* setGlobalRunner(runner): STYX_GLOBAL_RUNNER = runner.
setGlobalRunner(slot, h, runner) ==
    [slot |-> runner, heap |-> h]

-----------------------------------------------------------------------------
(* StyxRuntimeError (src/unnamed/part_001). *)

\* Return codes handed to the constructor.
ReturnCodes == {0, 2, 127}

\* Command arguments: the empty string, tool, --flag, a b, "x", it's.
ArgStrings ==
    { <<>>,
      <<"t", "o", "o", "l">>,
      <<"-", "-", "f", "l", "a", "g">>,
      <<"a", " ", "b">>,
      <<"\"", "x", "\"">>,
      <<"i", "t", "'", "s">> }

\* Extra message texts: the empty string, oops.
ExtraTexts == { <<>>, <<"o", "o", "p", "s">> }

Digits == <<"0", "1", "2", "3", "4", "5", "6", "7", "8", "9">>

RECURSIVE NatToString(_)
NatToString(n) ==
    IF n < 10 THEN <<Digits[n + 1]>>
    ELSE NatToString(n \div 10) \o <<Digits[(n % 10) + 1]>>

\* ${returnCode} of an integer: Number.prototype.toString, radix 10.
NumberToString(n) ==
    IF n < 0 THEN <<"-">> \o NatToString(-n) ELSE NatToString(n)

\* 'Command failed with return code ' (the text before ${returnCode})
StrFailedWithCode ==
    <<"C", "o", "m", "m", "a", "n", "d", " ", "f", "a", "i", "l", "e", "d",
      " ", "w", "i", "t", "h", " ", "r", "e", "t", "u", "r", "n", " ", "c",
      "o", "d", "e", " ">>

\* 'Command failed.'
StrFailed ==
    <<"C", "o", "m", "m", "a", "n", "d", " ", "f", "a", "i", "l", "e", "d",
      ".">>

\* '\n- Command args: '
StrCommandArgs ==
    <<"\n", "-", " ", "C", "o", "m", "m", "a", "n", "d", " ", "a", "r",
      "g", "s", ":", " ">>

\* arg.includes(c)
Includes(str, c) == \E i \in DOMAIN str : str[i] = c

\* arg.replace(/"/g, '\\"'): every double quote becomes backslash, quote.
RECURSIVE ReplaceQuotes(_)
ReplaceQuotes(str) ==
    IF str = <<>> THEN <<>>
    ELSE (IF Head(str) = "\"" THEN <<"\\", "\"">> ELSE <<Head(str)>>)
         \o ReplaceQuotes(Tail(str))

\* The callback were it to look for spaces only.
QuoteArgSpacesOnly(arg) ==
    IF Includes(arg, " ")
    THEN <<"\"">> \o ReplaceQuotes(arg) \o <<"\"">>
    ELSE arg

\* The callback of commandArgs.map: the "simple implementation of shlex.join".
QuoteArg(arg) ==
    IF Includes(arg, " ") \/ Includes(arg, "\"") \/ Includes(arg, "'")
    THEN <<"\"">> \o ReplaceQuotes(arg) \o <<"\"">>
    ELSE arg

\* Array.prototype.join(sep)
RECURSIVE Join(_, _)
Join(parts, sep) ==
    IF parts = <<>> THEN <<>>
    ELSE IF Len(parts) = 1 THEN parts[1]
    ELSE parts[1] \o sep \o Join(Tail(parts), sep)

\* The message the constructor assembles; commandArgs is the contents of the
\* array handed in, or None for undefined.
ErrorMessage(returnCode, commandArgs, messageExtra) ==
    LET first == IF returnCode # None
                 THEN StrFailedWithCode \o NumberToString(returnCode[1]) \o <<".">>
                 ELSE StrFailed
        args  == IF commandArgs # None
                 THEN StrCommandArgs
                      \o Join([i \in DOMAIN commandArgs[1] |->
                                  QuoteArg(commandArgs[1][i])], <<" ">>)
                 ELSE <<>>
        extra == IF messageExtra # None THEN <<"\n">> \o messageExtra[1] ELSE <<>>
    IN  first \o args \o extra

\* The constructor were it to keep a copy of the array ([...commandArgs]).
ErrorFieldsCopying(h, returnCode, commandArgs, messageExtra) ==
    LET copy == Len(h) + 1
    IN  [arrays |-> IF commandArgs = NullRef THEN h
                    ELSE Append(h, h[commandArgs]),
         err    |-> [name       |-> "StyxRuntimeError",
                     message    |-> ErrorMessage(returnCode,
                                        IF commandArgs = NullRef THEN None
                                        ELSE Some(h[commandArgs]),
                                        messageExtra),
                     returnCode |-> returnCode,
                     commandArgs |-> IF commandArgs = NullRef THEN NullRef
                                     ELSE copy]]

\* The fields the constructor sets on the error: message (through super),
\* name, returnCode and commandArgs, the last being the reference handed in.
ErrorFields(h, returnCode, commandArgs, messageExtra) ==
    [arrays |-> h,
     err    |-> [name       |-> "StyxRuntimeError",
                 message    |-> ErrorMessage(returnCode,
                                    IF commandArgs = NullRef THEN None
                                    ELSE Some(h[commandArgs]),
                                    messageExtra),
                 returnCode |-> returnCode,
                 commandArgs |-> commandArgs]]

-----------------------------------------------------------------------------
(* Operations of the runner side. *)

Call(name, self, args, ret) ==
    [name |-> name, self |-> self, args |-> args, ret |-> ret]

\* The Execution references the caller holds: those startExecution returned.
Executions == { started[i].exec : i \in DOMAIN started }

\* The caller writes `new DryRunner()`.
NewDryRunner ==
    /\ Cardinality(DOMAIN heap) < MaxRunners
    /\ heap' = Alloc(heap, DryRunnerNew)
    /\ op' = Call("new DryRunner", 0, <<>>, Some(FreshRef(heap)))
    /\ UNCHANGED <<STYX_GLOBAL_RUNNER, started, calls, arrays, err>>

GetGlobalRunner ==
    LET res == getGlobalRunner(STYX_GLOBAL_RUNNER, heap)
    IN  /\ STYX_GLOBAL_RUNNER' = res.slot
        /\ heap' = res.heap
        /\ op' = Call("getGlobalRunner", 0, <<>>, Some(res.ret))
        /\ UNCHANGED <<started, calls, arrays, err>>

SetGlobalRunner ==
    \E runner \in DOMAIN heap :
        LET res == setGlobalRunner(STYX_GLOBAL_RUNNER, heap, runner)
        IN  /\ STYX_GLOBAL_RUNNER' = res.slot
            /\ heap' = res.heap
            /\ op' = Call("setGlobalRunner", 0, <<runner>>, None)
            /\ UNCHANGED <<started, calls, arrays, err>>

\* runner.startExecution(metadata) on a runner the caller holds.
StartExecution ==
    /\ Len(started) < MaxStarts
    /\ \E runner \in DOMAIN heap, metadata \in Metadata :
        LET res == startExecution(heap, runner, metadata)
        IN  /\ heap' = res.heap
            /\ started' = Append(started, [runner |-> runner, exec |-> res.ret])
            /\ op' = Call("startExecution", runner, <<metadata>>, Some(res.ret))
            /\ UNCHANGED <<STYX_GLOBAL_RUNNER, calls, arrays, err>>

\* execution.inputFile(hostFile, resolveParent, mutable) on an Execution
\* that a startExecution call returned.
InputFile ==
    \E self \in Executions, hostFile \in Paths,
       resolveParent \in BOOLEAN, mutable \in BOOLEAN :
        LET res == inputFile(heap, self, hostFile, resolveParent, mutable)
        IN  /\ heap' = res.heap
            /\ op' = Call("inputFile", self,
                          <<hostFile, resolveParent, mutable>>, Some(res.ret))
            /\ UNCHANGED <<STYX_GLOBAL_RUNNER, started, calls, arrays, err>>

OutputFile ==
    \E self \in Executions, localFile \in Paths, optional \in BOOLEAN :
        LET res == outputFile(heap, self, localFile, optional)
        IN  /\ heap' = res.heap
            /\ op' = Call("outputFile", self,
                          <<localFile, optional>>, Some(res.ret))
            /\ UNCHANGED <<STYX_GLOBAL_RUNNER, started, calls, arrays, err>>

Params ==
    \E self \in Executions, p \in ParamObjects :
        LET res == params(heap, self, p)
        IN  /\ heap' = res.heap
            /\ op' = Call("params", self, <<p>>, Some(res.ret))
            /\ UNCHANGED <<STYX_GLOBAL_RUNNER, started, calls, arrays, err>>

\* execution.run(cargs, handleStdout, handleStderr); a handler is either
\* supplied (TRUE) or left out (FALSE).
Run ==
    \E self \in Executions, cargs \in CargsValues,
       handleStdout \in BOOLEAN, handleStderr \in BOOLEAN :
        LET res == run(heap, self, cargs, handleStdout, handleStderr)
        IN  /\ heap' = res.heap
            /\ calls' = calls \o res.invoked
            /\ op' = Call("run", self,
                          <<cargs, handleStdout, handleStderr>>, Some(res.ret))
            /\ UNCHANGED <<STYX_GLOBAL_RUNNER, started, arrays, err>>

-----------------------------------------------------------------------------
(* Operations of the error side. *)

\* The array the caller builds its command line in.
CallerArgs == 1

\* cargs.push(arg) by the caller, before or after an error was constructed.
ArrayPush ==
    /\ Len(arrays[CallerArgs]) < MaxArgs
    /\ \E arg \in ArgStrings :
        /\ arrays' = [arrays EXCEPT ![CallerArgs] = Append(@, arg)]
        /\ op' = Call("push", CallerArgs, <<arg>>, None)
    /\ UNCHANGED <<STYX_GLOBAL_RUNNER, heap, started, calls, err>>

\* new StyxRuntimeError(returnCode, commandArgs, messageExtra); an argument
\* left out is undefined (None, or NullRef for the array).
NewStyxRuntimeError ==
    \E returnCode \in {None} \cup { Some(c) : c \in ReturnCodes },
       commandArgs \in {NullRef} \cup DOMAIN arrays,
       messageExtra \in {None} \cup { Some(t) : t \in ExtraTexts } :
        LET res == ErrorFields(arrays, returnCode, commandArgs, messageExtra)
        IN  /\ arrays' = res.arrays
            /\ err' = Some(res.err)
            /\ op' = Call("new StyxRuntimeError", 0,
                          <<returnCode, commandArgs, messageExtra>>, None)
            /\ UNCHANGED <<STYX_GLOBAL_RUNNER, heap, started, calls>>

-----------------------------------------------------------------------------

(* The registry and the factory: the caller constructs runners, reads and
   overwrites the default, and starts executions. *)

Init ==
    /\ STYX_GLOBAL_RUNNER = NullRef
    /\ heap = <<>>
    /\ started = <<>>
    /\ calls = <<>>
    /\ arrays = <<>>
    /\ err = None
    /\ op = Call("init", 0, <<>>, None)

Next ==
    \/ NewDryRunner
    \/ GetGlobalRunner
    \/ SetGlobalRunner
    \/ StartExecution

Spec == Init /\ [][Next]_vars

(* The executions: the caller has constructed one DryRunner of its own, the
   default one appears with the first getGlobalRunner(), and every operation
   of an Execution is called in any order on what startExecution returned. *)

ExecInit ==
    /\ STYX_GLOBAL_RUNNER = NullRef
    /\ heap = <<DryRunnerNew>>
    /\ started = <<>>
    /\ calls = <<>>
    /\ arrays = <<>>
    /\ err = None
    /\ op = Call("new DryRunner", 0, <<>>, Some(FreshRef(<<>>)))

ExecNext ==
    \/ GetGlobalRunner
    \/ SetGlobalRunner
    \/ StartExecution
    \/ InputFile
    \/ OutputFile
    \/ Params
    \/ Run

ExecSpec == ExecInit /\ [][ExecNext]_vars

(* The error value: the caller fills an array with command arguments,
   constructs errors from it and goes on filling it. *)

ErrorInit ==
    /\ STYX_GLOBAL_RUNNER = NullRef
    /\ heap = <<>>
    /\ started = <<>>
    /\ calls = <<>>
    /\ arrays = << <<>> >>
    /\ err = None
    /\ op = Call("init", 0, <<>>, None)

ErrorNext ==
    \/ ArrayPush
    \/ NewStyxRuntimeError

ErrorSpec == ErrorInit /\ [][ErrorNext]_vars

-----------------------------------------------------------------------------
(* Properties of the registry and the factory, checked under Spec. *)

\* C1 as stated: no Execution instance is returned by more than one
\* startExecution call, whatever the runner and the metadata.
C1_DistinctExecutions ==
    \A i, j \in DOMAIN started :
        i # j => started[i].exec # started[j].exec

\* C1 as amended: DryRunner.startExecution returns the runner it is called
\* on, so two calls return the same Execution instance when they are made on
\* the same runner and distinct instances when made on distinct runners.
C1_ExecutionIsRunner ==
    /\ \A i \in DOMAIN started : started[i].exec = started[i].runner
    /\ \A i, j \in DOMAIN started :
        (started[i].exec = started[j].exec)
            <=> (started[i].runner = started[j].runner)

\* Two startExecution calls were made on one runner.
C1_Witness ==
    /\ \E i, j \in DOMAIN started :
        i # j /\ started[i].runner = started[j].runner
              /\ started[i].exec = started[j].exec
    /\ Len(started) = MaxStarts

C4_LastWriteWins ==
    [][ /\ op'.name = "setGlobalRunner" =>
            /\ STYX_GLOBAL_RUNNER' = op'.args[1]
            /\ heap' = heap
        /\ (op.name = "setGlobalRunner" /\ op'.name = "getGlobalRunner") =>
            /\ op'.ret = Some(op.args[1])
            /\ STYX_GLOBAL_RUNNER' = op.args[1]
            /\ heap' = heap
        /\ (STYX_GLOBAL_RUNNER # NullRef /\ op'.name = "getGlobalRunner") =>
            op'.ret = Some(STYX_GLOBAL_RUNNER)
        /\ (STYX_GLOBAL_RUNNER # NullRef /\ op'.name # "setGlobalRunner") =>
            STYX_GLOBAL_RUNNER' = STYX_GLOBAL_RUNNER
      ]_vars

\* A setGlobalRunner overwrote a set slot: the default runner exists, so the
\* slot was filled before this call, and it now holds the runner passed.
C4_Witness ==
    /\ op.name = "setGlobalRunner"
    /\ Cardinality(DOMAIN heap) = MaxRunners + 1
    /\ STYX_GLOBAL_RUNNER = op.args[1]

-----------------------------------------------------------------------------
(* Properties of the executions, checked under ExecSpec. *)

\* What an Execution has recorded of its parameters and argument vector.
Recorded(h, e) == <<h[e].lastParams, h[e].lastCargs>>

\* C2 as stated: a params, run or startExecution call made for one Execution
\* never changes the parameters and argument vector recorded for another
\* Execution (one that another startExecution call returned).
C2_Independent ==
    [][ \A i \in DOMAIN started, j \in DOMAIN started' :
            ( /\ i # j
              /\ \/ op'.name \in {"params", "run"}
                        /\ op'.self = started'[j].exec
                 \/ op'.name = "startExecution" /\ j = Len(started') )
            => Recorded(heap', started[i].exec) = Recorded(heap, started[i].exec)
      ]_vars

\* C2 as amended: a call changes no runner object but the one it is made on,
\* so Executions started from distinct runners are independent; Executions
\* started from the same DryRunner are that one object, and their shared
\* record holds what the most recent params and run call on any of them
\* passed.
C2_IndependentAcrossRunners ==
    [][ /\ \A r \in DOMAIN heap : r # op'.self => heap'[r] = heap[r]
        /\ \A i \in DOMAIN started, j \in DOMAIN started' :
            ( /\ started[i].runner # started'[j].runner
              /\ \/ op'.name \in {"params", "run"}
                        /\ op'.self = started'[j].exec
                 \/ op'.name = "startExecution" /\ j = Len(started') )
            => Recorded(heap', started[i].exec) = Recorded(heap, started[i].exec)
        /\ \A i \in DOMAIN started :
            /\ (op'.name = "params" /\ op'.self = started[i].exec) =>
                Recorded(heap', started[i].exec)
                    = <<Some(op'.args[1]), heap[started[i].exec].lastCargs>>
            /\ (op'.name = "run" /\ op'.self = started[i].exec) =>
                Recorded(heap', started[i].exec)
                    = <<heap[started[i].exec].lastParams, Some(op'.args[1])>>
      ]_vars

\* Executions of two runners, each holding the parameters of its own call.
C2_Witness ==
    /\ op.name = "params"
    /\ \E i, j \in DOMAIN started :
        /\ started[i].exec # started[j].exec
        /\ heap[started[i].exec].lastParams = Some("paramsA")
        /\ heap[started[j].exec].lastParams = Some("paramsB")
        /\ heap[started[i].exec].lastCargs # None

\* C5: setGlobalRunner changes the slot and nothing else: every runner
\* object, with the metadata, parameters and argument vector it has
\* recorded, the Executions handed out and the runner each belongs to stay
\* as they were.
C5_SetChangesOnlySlot ==
    [][ op'.name = "setGlobalRunner" =>
            /\ heap' = heap
            /\ started' = started
            /\ calls' = calls
            /\ \A i \in DOMAIN started' : started'[i].exec \in DOMAIN heap'
      ]_vars

\* The default runner was replaced while an Execution of it had recorded
\* metadata, parameters and an argument vector.
C5_Witness ==
    /\ op.name = "setGlobalRunner"
    /\ \E i \in DOMAIN started :
        /\ started[i].exec # STYX_GLOBAL_RUNNER
        /\ heap[started[i].exec].lastMetadata # None
        /\ heap[started[i].exec].lastParams # None
        /\ heap[started[i].exec].lastCargs # None

\* C6: in every state, inputFile returns the host path it was given whatever
\* resolveParent and mutable are, outputFile returns the local path it was
\* given whatever optional is, and neither changes any runner object.
C6_PathIdentity ==
    [][ /\ op'.name = "inputFile" =>
            /\ op'.ret = Some(op'.args[1])
            /\ heap' = heap
        /\ op'.name = "outputFile" =>
            /\ op'.ret = Some(op'.args[1])
            /\ heap' = heap
      ]_vars

\* An input registered after run, with resolveParent and mutable set.
C6_Witness ==
    /\ op.name = "inputFile"
    /\ op.args[2] /\ op.args[3]
    /\ op.ret = Some(op.args[1])
    /\ heap[op.self].lastCargs # None
    /\ heap[op.self].lastParams # None

\* C7: params(x) returns x and leaves x as the last recorded parameters of
\* the Execution; the recorded metadata and argument vector stay.
C7_ParamsPassthrough ==
    [][ op'.name = "params" =>
            /\ op'.ret = Some(op'.args[1])
            /\ heap'[op'.self].lastParams = Some(op'.args[1])
            /\ heap'[op'.self].lastMetadata = heap[op'.self].lastMetadata
            /\ heap'[op'.self].lastCargs = heap[op'.self].lastCargs
      ]_vars

\* params replaced earlier parameters on an Execution that has run.
C7_Witness ==
    /\ op.name = "params"
    /\ op.args = <<"paramsB">>
    /\ heap[op.self].lastParams = Some("paramsB")
    /\ heap[op.self].lastCargs # None

\* C8: no callback is ever invoked; run records the vector it was given,
\* returns normally and invokes nothing, also when the Execution has run
\* before; the recorded vector changes in no other call, and is null on a
\* runner until run is called.
C8_RunRecords ==
    /\ calls = <<>>
    /\ \A r \in DOMAIN heap : heap[r].lastCargs = None
    /\ [][ /\ calls' = <<>>
           /\ op'.name = "run" =>
                /\ heap'[op'.self].lastCargs = Some(op'.args[1])
                /\ op'.ret = Some("void")
                /\ calls' = calls
           /\ \A r \in DOMAIN heap' :
                op'.name # "run" =>
                    heap'[r].lastCargs
                        = (IF r \in DOMAIN heap THEN heap[r].lastCargs ELSE None)
         ]_vars

\* A run with both handlers supplied has recorded the longer vector.
C8_Witness ==
    /\ op.name = "run"
    /\ op.args[2] /\ op.args[3]
    /\ Len(op.args[1]) > 1
    /\ heap[op.self].lastCargs = Some(op.args[1])
    /\ op.ret = Some("void")

-----------------------------------------------------------------------------
(* Properties of the error value, checked under ErrorSpec. *)

\* The message for return code 2 and ["tool", "--flag", "a b"].
MsgCode2ToolFlagAB ==
    <<"C", "o", "m", "m", "a", "n", "d", " ", "f", "a", "i", "l", "e", "d",
      " ", "w", "i", "t", "h", " ", "r", "e", "t", "u", "r", "n", " ", "c",
      "o", "d", "e", " ", "2", ".", "\n", "-", " ", "C", "o", "m", "m",
      "a", "n", "d", " ", "a", "r", "g", "s", ":", " ", "t", "o", "o", "l",
      " ", "-", "-", "f", "l", "a", "g", " ", "\"", "a", " ", "b", "\"">>

\* The decimal text of each return code in use.
DecimalText(code) ==
    CASE code = 0   -> <<"0">>
      [] code = 2   -> <<"2">>
      [] code = 127 -> <<"1", "2", "7">>

\* The element as the message shows it: between double quotes, each of its
\* own double quotes preceded by a backslash, when it holds a space, a
\* double quote or a single quote; as it is otherwise.
RECURSIVE EscapedUpTo(_, _)
EscapedUpTo(arg, n) ==
    IF n = 0 THEN <<>>
    ELSE EscapedUpTo(arg, n - 1)
         \o (IF arg[n] = "\"" THEN <<"\\">> ELSE <<>>) \o <<arg[n]>>

Shown(arg) ==
    IF \E i \in DOMAIN arg : arg[i] \in {" ", "\"", "'"}
    THEN <<"\"">> \o EscapedUpTo(arg, Len(arg)) \o <<"\"">>
    ELSE arg

\* The first n elements as shown, with one space between neighbours.
RECURSIVE ShownUpTo(_, _)
ShownUpTo(args, n) ==
    IF n = 0 THEN <<>>
    ELSE IF n = 1 THEN Shown(args[1])
    ELSE ShownUpTo(args, n - 1) \o <<" ">> \o Shown(args[n])

\* The message of the claim, for a code, an argument vector and a detail,
\* each optional.
ExpectedMessage(code, args, detail) ==
    (IF code = None THEN StrFailed
     ELSE StrFailedWithCode \o DecimalText(code[1]) \o <<".">>)
    \o (IF args = None THEN <<>>
        ELSE StrCommandArgs \o ShownUpTo(args[1], Len(args[1])))
    \o (IF detail = None THEN <<>> ELSE <<"\n">> \o detail[1])

\* C9: the message of a constructed error is the first line (with the code
\* when one is given, code 0 included), then the argument line only when a
\* vector is given, then the detail on a line of its own only when one is
\* given; for code 2 and ["tool", "--flag", "a b"] it is the two lines of
\* the example, and with nothing given it is "Command failed.".
C9_MessageFormat ==
    [][ op'.name = "new StyxRuntimeError" =>
            LET code   == op'.args[1]
                ref    == op'.args[2]
                args   == IF ref = NullRef THEN None ELSE Some(arrays[ref])
                detail == op'.args[3]
                msg    == err'[1].message
            IN  /\ msg = ExpectedMessage(code, args, detail)
                /\ (code = None /\ args = None /\ detail = None) =>
                        msg = StrFailed
                /\ ( /\ code = Some(2)
                     /\ args = Some(<< <<"t", "o", "o", "l">>,
                                       <<"-", "-", "f", "l", "a", "g">>,
                                       <<"a", " ", "b">> >>)
                     /\ detail = None ) =>
                        msg = MsgCode2ToolFlagAB
      ]_vars

\* The error of the example was constructed.
C9_Witness ==
    /\ op.name = "new StyxRuntimeError"
    /\ err # None
    /\ err[1].message = MsgCode2ToolFlagAB

\* C10 as stated: the error carries the return code, a copy of the argument
\* vector (a later change of the caller's vector does not change what the
\* error recorded) and the detail, each as a field of its own.
C10_ThreeFields ==
    [][ /\ op'.name = "new StyxRuntimeError" =>
            /\ err'[1].returnCode = op'.args[1]
            /\ (op'.args[2] # NullRef) =>
                    arrays'[err'[1].commandArgs] = arrays[op'.args[2]]
            /\ DOMAIN err'[1]
                    \ {"name", "message", "returnCode", "commandArgs"} # {}
        /\ ( /\ op'.name = "push"
             /\ err # None
             /\ err[1].commandArgs # NullRef ) =>
                arrays'[err'[1].commandArgs] = arrays[err[1].commandArgs]
      ]_vars

\* TRUE when str ends with suffix.
EndsWith(str, suffix) ==
    /\ Len(suffix) <= Len(str)
    /\ SubSeq(str, Len(str) - Len(suffix) + 1, Len(str)) = suffix

\* C10 as amended: the error has the fields name, message, returnCode and
\* commandArgs and no other; returnCode is the code given; commandArgs is
\* the very array given (no array is made, so what the caller pushes later
\* is seen through the error); the detail is kept only as the last line of
\* the message; and a later push changes no field of the error.
C10_TwoFieldsByReference ==
    [][ /\ op'.name = "new StyxRuntimeError" =>
            /\ DOMAIN err'[1] = {"name", "message", "returnCode", "commandArgs"}
            /\ err'[1].name = "StyxRuntimeError"
            /\ err'[1].returnCode = op'.args[1]
            /\ err'[1].commandArgs = op'.args[2]
            /\ arrays' = arrays
            /\ (op'.args[3] # None) =>
                    EndsWith(err'[1].message, <<"\n">> \o op'.args[3][1])
        /\ op'.name = "push" =>
            /\ err' = err
            /\ arrays'[CallerArgs] = Append(arrays[CallerArgs], op'.args[1])
      ]_vars

\* The caller pushed an argument after constructing an error from its
\* array with a detail: the error's commandArgs is that array, now longer
\* than the vector the message shows.
C10_Witness ==
    /\ op.name = "push"
    /\ err # None
    /\ err[1].commandArgs = CallerArgs
    /\ err[1].returnCode = Some(2)
    /\ EndsWith(err[1].message, <<"\n", "o", "o", "p", "s">>)
    /\ Len(arrays[err[1].commandArgs]) = MaxArgs

====
